---- MODULE Spec2Model ----
(***************************************************************************)
(* The C2PA OpenType table codec of fonttools-rs (tables/C2PA.rs): the     *)
(* table value, C2PA::to_bytes, C2PA::from_bytes and the reader context    *)
(* they run on.  A byte is an integer 0..255.  A byte string (Vec<u8>,     *)
(* Box<[u8]>, the bytes of a String, a buffer) is kept run-length encoded: *)
(* a sequence of runs <<byte, times>>, times > 0, neighbouring runs of     *)
(* different bytes, so that <<0, 0, 0, 20>> is <<<<0, 3>>, <<20, 1>>>> and  *)
(* a URI of 65536 times 'a' is <<<<97, 65536>>>>.  Every byte string has    *)
(* exactly one such form, so equal strings are equal values.               *)
(* With it, the main of ttf-add-c2pa-table (fonttools-cli), which keeps,   *)
(* removes or inserts the C2PA table of a font.                            *)
(***************************************************************************)
EXTENDS Integers, Sequences, FiniteSets, TLC

VARIABLES pc, src, table, call, data, base, c, entry, res, matches, opened, in_font

vars == <<pc, src, table, call, data, base, c, entry, res, matches, opened, in_font>>

\* the variables of ttf-add-c2pa-table
cli == <<matches, opened, in_font>>

(***************************************************************************)
(* Bounds of the explored inputs.                                          *)
(***************************************************************************)
\* longest short activeManifestUri, in bytes
MaxUriLen == 2
\* longest short manifestStore, in bytes
MaxStoreLen == 2
\* longest prior content of the output buffer / prefix before a table
MaxPrefix == 1
\* the long URIs have 2^16 - 1 .. 2^16 + LongExtra bytes
LongExtra == 1

(***************************************************************************)
(* Integer widths.                                                         *)
(***************************************************************************)
U16 == 2 ^ 16

\* `x as u16`
AsU16(x) == x % U16

\* `x as u32`, on a 64-bit usize.  Every length and offset of the explored
\* inputs is below 2^31, where x % 2^32 = x.
AsU32(x) == x

(***************************************************************************)
(* Option<T>                                                               *)
(***************************************************************************)
None == [some |-> FALSE, val |-> <<>>]

Some(x) == [some |-> TRUE, val |-> x]

(***************************************************************************)
(* Byte strings.                                                           *)
(***************************************************************************)
\* runs with empty ones dropped and equal neighbours joined
RECURSIVE Norm(_)
Norm(r) ==
    IF Len(r) = 0 THEN <<>>
    ELSE IF r[1][2] = 0 THEN Norm(Tail(r))
    ELSE LET rest == Norm(Tail(r)) IN
         IF Len(rest) > 0 /\ rest[1][1] = r[1][1]
         THEN <<<<r[1][1], r[1][2] + rest[1][2]>>>> \o Tail(rest)
         ELSE <<r[1]>> \o rest

\* the byte string of a sequence of bytes
Bytes(s) == Norm([i \in 1..Len(s) |-> <<s[i], 1>>])

\* n times the byte b
Repeat(b, n) == Norm(<<<<b, n>>>>)

\* .len()
RECURSIVE ByteLen(_)
ByteLen(r) == IF Len(r) = 0 THEN 0 ELSE r[1][2] + ByteLen(Tail(r))

\* a.extend(b): a followed by b
Extend(a, b) == Norm(a \o b)

\* the byte at index i, from 1
RECURSIVE ByteAt(_, _)
ByteAt(r, i) == IF i <= r[1][2] THEN r[1][1] ELSE ByteAt(Tail(r), i - r[1][2])

\* the runs of r, the first beginning at index start, cut to lo..hi
RECURSIVE Clip(_, _, _, _)
Clip(r, start, lo, hi) ==
    IF Len(r) = 0 THEN <<>>
    ELSE LET end == start + r[1][2] - 1
             a == IF start > lo THEN start ELSE lo
             b == IF end < hi THEN end ELSE hi
         IN (IF a <= b THEN <<<<r[1][1], b - a + 1>>>> ELSE <<>>)
            \o Clip(Tail(r), end + 1, lo, hi)

\* bytes lo..hi of r, from 1
Slice(r, lo, hi) == Clip(r, 1, lo, hi)

\* the bytes of r one by one
ToSeq(r) == [i \in 1..ByteLen(r) |-> ByteAt(r, i)]

(***************************************************************************)
(* Primitive codec: big-endian unsigned integers.                          *)
(***************************************************************************)
uint16_to_bytes(x) == Bytes(<<(x \div 256) % 256, x % 256>>)

u32_to_bytes(x) ==
    Bytes(<<(x \div 16777216) % 256, (x \div 65536) % 256, (x \div 256) % 256,
            x % 256>>)

RECURSIVE from_be_bytes(_)
from_be_bytes(s) ==
    IF Len(s) = 0 THEN 0
    ELSE from_be_bytes(SubSeq(s, 1, Len(s) - 1)) * 256 + s[Len(s)]

(***************************************************************************)
(* str::from_utf8: is the byte string well-formed UTF-8?                   *)
(***************************************************************************)
IsCont(b) == b >= 128 /\ b <= 191

\* bytes of the scalar value a lead byte starts; 0 when it starts none
Utf8Width(b) ==
    IF b <= 127 THEN 1
    ELSE IF b >= 194 /\ b <= 223 THEN 2
    ELSE IF b >= 224 /\ b <= 239 THEN 3
    ELSE IF b >= 240 /\ b <= 244 THEN 4
    ELSE 0

\* the second byte of a scalar value, given its lead byte
SecondOk(lead, b) ==
    IF lead = 224 THEN b >= 160 /\ b <= 191
    ELSE IF lead = 237 THEN b >= 128 /\ b <= 159
    ELSE IF lead = 240 THEN b >= 144 /\ b <= 191
    ELSE IF lead = 244 THEN b >= 128 /\ b <= 143
    ELSE IsCont(b)

\* the runs r continue a well-formed string in which `pending` continuation
\* bytes are still due; lead is the lead byte when its second byte is next,
\* and 0 otherwise
RECURSIVE Utf8Runs(_, _, _)
Utf8Runs(r, pending, lead) ==
    IF Len(r) = 0 THEN pending = 0
    ELSE LET b == r[1][1]
             n == r[1][2]
         IN IF pending > 0
            THEN /\ IsCont(b)
                 /\ lead # 0 => SecondOk(lead, b)
                 /\ n <= pending
                 /\ Utf8Runs(Tail(r), pending - n, 0)
            ELSE /\ Utf8Width(b) > 0
                 /\ IF Utf8Width(b) = 1 THEN Utf8Runs(Tail(r), 0, 0)
                    ELSE n = 1 /\ Utf8Runs(Tail(r), Utf8Width(b) - 1, b)

from_utf8_ok(r) == Utf8Runs(r, 0, 0)

(***************************************************************************)
(* ReaderContext: the input, the cursor and the table-origin stack.        *)
(***************************************************************************)
ReaderContext(input, ptr, stack) ==
    [input |-> input, ptr |-> ptr, top_of_table_stack |-> stack]

push(rc) == [rc EXCEPT !.top_of_table_stack = Append(@, rc.ptr)]

pop(rc) == [rc EXCEPT !.top_of_table_stack = SubSeq(@, 1, Len(@) - 1)]

top_of_table(rc) == rc.top_of_table_stack[Len(rc.top_of_table_stack)]

\* read one fixed-width big-endian integer
read_fixed(rc, width) ==
    IF rc.ptr + width > ByteLen(rc.input)
    THEN [ok |-> FALSE, val |-> 0, c |-> rc]
    ELSE [ok |-> TRUE,
          val |-> from_be_bytes(ToSeq(Slice(rc.input, rc.ptr + 1, rc.ptr + width))),
          c |-> [rc EXCEPT !.ptr = @ + width]]

\* read n bytes, one u8 at a time
de_counted(rc, n) ==
    IF n > 0 /\ rc.ptr + n > ByteLen(rc.input)
    THEN [ok |-> FALSE, val |-> <<>>, c |-> rc]
    ELSE [ok |-> TRUE,
          val |-> Slice(rc.input, rc.ptr + 1, rc.ptr + n),
          c |-> [rc EXCEPT !.ptr = @ + n]]

(***************************************************************************)
(* C2PARecordInternal, the fixed header.                                   *)
(***************************************************************************)
\* field widths in declaration order
C2PARecordInternalWidths == <<2, 2, 4, 2, 2, 4, 4>>

RECURSIVE read_fields(_, _)
read_fields(rc, widths) ==
    IF Len(widths) = 0 THEN [ok |-> TRUE, vals |-> <<>>, c |-> rc]
    ELSE LET r == read_fixed(rc, Head(widths)) IN
         IF ~r.ok THEN [ok |-> FALSE, vals |-> <<>>, c |-> r.c]
         ELSE LET rest == read_fields(r.c, Tail(widths)) IN
              [ok |-> rest.ok, vals |-> <<r.val>> \o rest.vals, c |-> rest.c]

C2PARecordInternal(major, minor, uriOff, uriLen, reserved, storeOff, storeLen) ==
    [majorVersion |-> major, minorVersion |-> minor,
     activeManifestUriOffset |-> uriOff, activeManifestUriLength |-> uriLen,
     reserved |-> reserved,
     manifestStoreOffset |-> storeOff, manifestStoreLength |-> storeLen]

NoRecord == C2PARecordInternal(0, 0, 0, 0, 0, 0, 0)

\* c.de() of the header
de_C2PARecordInternal(rc) ==
    LET r == read_fields(rc, C2PARecordInternalWidths) IN
    IF ~r.ok THEN [ok |-> FALSE, val |-> NoRecord, c |-> r.c]
    ELSE [ok |-> TRUE,
          val |-> C2PARecordInternal(r.vals[1], r.vals[2], r.vals[3], r.vals[4],
                                     r.vals[5], r.vals[6], r.vals[7]),
          c |-> r.c]

\* C2PARecordInternal::to_bytes
C2PARecordInternal_to_bytes(rec) ==
    Norm(uint16_to_bytes(rec.majorVersion) \o uint16_to_bytes(rec.minorVersion)
         \o u32_to_bytes(rec.activeManifestUriOffset)
         \o uint16_to_bytes(rec.activeManifestUriLength)
         \o uint16_to_bytes(rec.reserved)
         \o u32_to_bytes(rec.manifestStoreOffset)
         \o u32_to_bytes(rec.manifestStoreLength))

(***************************************************************************)
(* The table value.                                                        *)
(***************************************************************************)
C2PA(major, minor, uri, store) ==
    [majorVersion |-> major, minorVersion |-> minor,
     activeManifestUri |-> uri, manifestStore |-> store]

\* what a derived Default would give: every field zero or absent
Default_derived == C2PA(0, 0, None, None)

Default == C2PA(0, 1, None, None)

new(active_manifest_uri, manifest_store) ==
    [Default EXCEPT !.activeManifestUri = active_manifest_uri,
                    !.manifestStore = manifest_store]

get_manifest_store(self) == self.manifestStore

(***************************************************************************)
(* Results of from_bytes.                                                  *)
(***************************************************************************)
NoTable == C2PA(0, 0, None, None)

Ok(v) == [ok |-> TRUE, err |-> "", val |-> v]

Err(e) == [ok |-> FALSE, err |-> e, val |-> NoTable]

NoResult == [ok |-> FALSE, err |-> "none", val |-> NoTable]

(***************************************************************************)
(* impl Deserialize for C2PA                                               *)
(***************************************************************************)
\* read_active_manifest_uri taking a nonzero length, and not a nonzero
\* offset, for the sign that the URI is there
read_active_manifest_uri_by_length(rc, internal_record) ==
    IF internal_record.activeManifestUriLength > 0
    THEN LET c1 == [rc EXCEPT !.ptr = top_of_table(rc)
                                      + internal_record.activeManifestUriOffset]
             uri_as_bytes == de_counted(c1, internal_record.activeManifestUriLength)
         IN IF ~uri_as_bytes.ok
            THEN [ok |-> FALSE, err |-> "OutOfData", val |-> None, c |-> uri_as_bytes.c]
            ELSE IF ~from_utf8_ok(uri_as_bytes.val)
            THEN [ok |-> FALSE, err |-> "InvalidEncoding", val |-> None,
                  c |-> uri_as_bytes.c]
            ELSE [ok |-> TRUE, err |-> "", val |-> Some(uri_as_bytes.val),
                  c |-> uri_as_bytes.c]
    ELSE [ok |-> TRUE, err |-> "", val |-> None, c |-> rc]

\* read_active_manifest_uri keeping the bytes whether or not they are UTF-8
read_active_manifest_uri_unchecked(rc, internal_record) ==
    IF internal_record.activeManifestUriOffset > 0
    THEN LET c1 == [rc EXCEPT !.ptr = top_of_table(rc)
                                      + internal_record.activeManifestUriOffset]
             uri_as_bytes == de_counted(c1, internal_record.activeManifestUriLength)
         IN IF ~uri_as_bytes.ok
            THEN [ok |-> FALSE, err |-> "OutOfData", val |-> None, c |-> uri_as_bytes.c]
            ELSE [ok |-> TRUE, err |-> "", val |-> Some(uri_as_bytes.val),
                  c |-> uri_as_bytes.c]
    ELSE [ok |-> TRUE, err |-> "", val |-> None, c |-> rc]

\* the active manifest URI: seek, read the bytes, convert from UTF-8.
\* An error leaves by `?`, with the context as it is at that point.
read_active_manifest_uri(rc, internal_record) ==
    IF internal_record.activeManifestUriOffset > 0
    THEN LET c1 == [rc EXCEPT !.ptr = top_of_table(rc)
                                      + internal_record.activeManifestUriOffset]
             uri_as_bytes == de_counted(c1, internal_record.activeManifestUriLength)
         IN IF ~uri_as_bytes.ok
            THEN [ok |-> FALSE, err |-> "OutOfData", val |-> None, c |-> uri_as_bytes.c]
            ELSE IF ~from_utf8_ok(uri_as_bytes.val)
            THEN [ok |-> FALSE, err |-> "InvalidEncoding", val |-> None,
                  c |-> uri_as_bytes.c]
            ELSE [ok |-> TRUE, err |-> "", val |-> Some(uri_as_bytes.val),
                  c |-> uri_as_bytes.c]
    ELSE [ok |-> TRUE, err |-> "", val |-> None, c |-> rc]

\* read_manifest_store returning the bytes that are there when fewer than
\* manifestStoreLength remain
read_manifest_store_truncating(rc, internal_record) ==
    IF internal_record.manifestStoreOffset > 0
    THEN LET at == top_of_table(rc) + internal_record.manifestStoreOffset
             n == internal_record.manifestStoreLength
             end == IF at + n > ByteLen(rc.input) THEN ByteLen(rc.input) ELSE at + n
         IN [ok |-> TRUE, err |-> "",
             val |-> Some(Slice(rc.input, at + 1, end)),
             c |-> [rc EXCEPT !.ptr = IF at >= end THEN at ELSE end]]
    ELSE [ok |-> TRUE, err |-> "", val |-> None, c |-> rc]

\* read_manifest_store seeking from the start of the buffer instead of the
\* top of the table
read_manifest_store_absolute(rc, internal_record) ==
    IF internal_record.manifestStoreOffset > 0
    THEN LET c1 == [rc EXCEPT !.ptr = internal_record.manifestStoreOffset]
             store_as_bytes == de_counted(c1, internal_record.manifestStoreLength)
         IN IF ~store_as_bytes.ok
            THEN [ok |-> FALSE, err |-> "OutOfData", val |-> None, c |-> store_as_bytes.c]
            ELSE [ok |-> TRUE, err |-> "", val |-> Some(store_as_bytes.val),
                  c |-> store_as_bytes.c]
    ELSE [ok |-> TRUE, err |-> "", val |-> None, c |-> rc]

\* read_manifest_store converting the store from UTF-8, as the URI is
read_manifest_store_as_utf8(rc, internal_record) ==
    IF internal_record.manifestStoreOffset > 0
    THEN LET c1 == [rc EXCEPT !.ptr = top_of_table(rc)
                                      + internal_record.manifestStoreOffset]
             store_as_bytes == de_counted(c1, internal_record.manifestStoreLength)
         IN IF ~store_as_bytes.ok
            THEN [ok |-> FALSE, err |-> "OutOfData", val |-> None, c |-> store_as_bytes.c]
            ELSE IF ~from_utf8_ok(store_as_bytes.val)
            THEN [ok |-> FALSE, err |-> "InvalidEncoding", val |-> None,
                  c |-> store_as_bytes.c]
            ELSE [ok |-> TRUE, err |-> "", val |-> Some(store_as_bytes.val),
                  c |-> store_as_bytes.c]
    ELSE [ok |-> TRUE, err |-> "", val |-> None, c |-> rc]

\* the manifest store: seek, read the bytes, keep them as they are
read_manifest_store(rc, internal_record) ==
    IF internal_record.manifestStoreOffset > 0
    THEN LET c1 == [rc EXCEPT !.ptr = top_of_table(rc)
                                      + internal_record.manifestStoreOffset]
             store_as_bytes == de_counted(c1, internal_record.manifestStoreLength)
         IN IF ~store_as_bytes.ok
            THEN [ok |-> FALSE, err |-> "OutOfData", val |-> None, c |-> store_as_bytes.c]
            ELSE [ok |-> TRUE, err |-> "", val |-> Some(store_as_bytes.val),
                  c |-> store_as_bytes.c]
    ELSE [ok |-> TRUE, err |-> "", val |-> None, c |-> rc]

\* from_bytes refusing a header whose reserved field is not zero
from_bytes_reserved_checked(rc) ==
    LET c0 == push(rc)
        hdr == de_C2PARecordInternal(c0)
    IN IF ~hdr.ok THEN [res |-> Err("OutOfData"), c |-> hdr.c]
       ELSE IF hdr.val.reserved # 0 THEN [res |-> Err("StructuralMismatch"), c |-> hdr.c]
       ELSE LET uri == read_active_manifest_uri(hdr.c, hdr.val)
            IN IF ~uri.ok THEN [res |-> Err(uri.err), c |-> uri.c]
               ELSE LET store == read_manifest_store(uri.c, hdr.val)
                    IN IF ~store.ok THEN [res |-> Err(store.err), c |-> store.c]
                       ELSE [res |-> Ok(C2PA(hdr.val.majorVersion, hdr.val.minorVersion,
                                             uri.val, store.val)),
                             c |-> pop(store.c)]

\* from_bytes without the c.pop() before it returns the value
from_bytes_without_pop(rc) ==
    LET c0 == push(rc)
        hdr == de_C2PARecordInternal(c0)
    IN IF ~hdr.ok THEN [res |-> Err("OutOfData"), c |-> hdr.c]
       ELSE LET internal_record == hdr.val
                uri == read_active_manifest_uri(hdr.c, internal_record)
            IN IF ~uri.ok THEN [res |-> Err(uri.err), c |-> uri.c]
               ELSE LET store == read_manifest_store(uri.c, internal_record)
                    IN IF ~store.ok THEN [res |-> Err(store.err), c |-> store.c]
                       ELSE [res |-> Ok(C2PA(internal_record.majorVersion,
                                             internal_record.minorVersion,
                                             uri.val, store.val)),
                             c |-> store.c]

\* C2PA::from_bytes(c): the result and the context it leaves behind
from_bytes(rc) ==
    LET c0 == push(rc)
        hdr == de_C2PARecordInternal(c0)
    IN IF ~hdr.ok THEN [res |-> Err("OutOfData"), c |-> hdr.c]
       ELSE LET internal_record == hdr.val
                uri == read_active_manifest_uri(hdr.c, internal_record)
            IN IF ~uri.ok THEN [res |-> Err(uri.err), c |-> uri.c]
               ELSE LET store == read_manifest_store(uri.c, internal_record)
                    IN IF ~store.ok THEN [res |-> Err(store.err), c |-> store.c]
                       ELSE [res |-> Ok(C2PA(internal_record.majorVersion,
                                             internal_record.minorVersion,
                                             uri.val, store.val)),
                             c |-> pop(store.c)]

(***************************************************************************)
(* impl Serialize for C2PA                                                 *)
(***************************************************************************)
\* the size of a header without the reserved field
offset_without_reserved == 20 - 2

\* `let offset: u32 = 20`, the size of the header
offset == 20

\* the header record with the store's offset not moved past the URI
c2pa_internal_record_store_at_offset(self) ==
    LET uri == self.activeManifestUri
        store == self.manifestStore
        active_manifest_offset == IF uri.some THEN offset ELSE 0
        active_manifest_length == IF uri.some THEN AsU16(ByteLen(uri.val)) ELSE 0
        manifest_store_offset == IF store.some THEN offset ELSE 0
        manifest_store_length == IF store.some THEN AsU32(ByteLen(store.val)) ELSE 0
    IN C2PARecordInternal(self.majorVersion, self.minorVersion,
                          active_manifest_offset, active_manifest_length, 0,
                          manifest_store_offset, manifest_store_length)

\* the header record to_bytes builds for a table value
c2pa_internal_record(self) ==
    LET uri == self.activeManifestUri
        store == self.manifestStore
        active_manifest_offset == IF uri.some THEN offset ELSE 0
        active_manifest_length == IF uri.some THEN AsU16(ByteLen(uri.val)) ELSE 0
        manifest_store_offset ==
            IF store.some THEN AsU32(offset + active_manifest_length) ELSE 0
        manifest_store_length == IF store.some THEN AsU32(ByteLen(store.val)) ELSE 0
    IN C2PARecordInternal(self.majorVersion, self.minorVersion,
                          active_manifest_offset, active_manifest_length, 0,
                          manifest_store_offset, manifest_store_length)

\* the data pool with the manifest store ahead of the URI
c2pa_data_pool_store_first(self) ==
    Extend(IF self.manifestStore.some THEN self.manifestStore.val ELSE <<>>,
           IF self.activeManifestUri.some THEN self.activeManifestUri.val ELSE <<>>)

\* the data pool to_bytes builds for a table value
c2pa_data_pool(self) ==
    Extend(IF self.activeManifestUri.some THEN self.activeManifestUri.val ELSE <<>>,
           IF self.manifestStore.some THEN self.manifestStore.val ELSE <<>>)

\* to_bytes with the offsets counted from the start of data
to_bytes_from_data_start(self, buf) ==
    LET rec == c2pa_internal_record(self)
        moved == [rec EXCEPT
                    !.activeManifestUriOffset = IF @ > 0 THEN @ + ByteLen(buf) ELSE 0,
                    !.manifestStoreOffset = IF @ > 0 THEN @ + ByteLen(buf) ELSE 0]
    IN Extend(Extend(buf, C2PARecordInternal_to_bytes(moved)), c2pa_data_pool(self))

\* C2PA::to_bytes(self, data): the buffer afterwards
to_bytes(self, buf) ==
    Extend(Extend(buf, C2PARecordInternal_to_bytes(c2pa_internal_record(self))),
           c2pa_data_pool(self))

(***************************************************************************)
(* The inputs explored.                                                    *)
(***************************************************************************)
SeqsUpTo(S, n) == UNION {[1..k -> S] : k \in 0..n}

\* "file://a" and "test-data", the payloads of the unit tests
FileA == Bytes(<<102, 105, 108, 101, 58, 47, 47, 97>>)

TestData == Bytes(<<116, 101, 115, 116, 45, 100, 97, 116, 97>>)

\* Strings: 'a' and U+00E9 (C3 A9)
ShortUris ==
    {s \in {Bytes(t) : t \in SeqsUpTo({97, 195, 169}, MaxUriLen)} : from_utf8_ok(s)}
    \cup {FileA}

\* a String of n bytes: lead, then 'a' up to n bytes
LongUri(n, lead) == Extend(Bytes(lead), Repeat(97, n - Len(lead)))

\* Strings of u16::MAX bytes and more
LongUris ==
    {LongUri(U16 - 1 + k, lead) : k \in 0..(LongExtra + 1),
                                  lead \in {<<97>>, <<195, 169>>}}

\* Vec<u8>: 't' and FF, which is no UTF-8
ShortStores == {Bytes(s) : s \in SeqsUpTo({116, 255}, MaxStoreLen)} \cup {TestData}

Versions == {<<0, 1>>, <<1, 0>>, <<258, 772>>}

OptionOf(S) == {None} \cup {Some(x) : x \in S}

TableValues ==
    {C2PA(v[1], v[2], uri, store) :
        v \in Versions, uri \in OptionOf(ShortUris), store \in OptionOf(ShortStores)}
    \cup {C2PA(0, 1, Some(uri), store) :
            uri \in LongUris, store \in {None, Some(<<>>), Some(Bytes(<<116>>))}}

\* what precedes a table in a buffer
Prefixes == {Repeat(170, k) : k \in 0..MaxPrefix}

\* the origins of the enclosing tables when a decode begins
Stacks == {<<>>, <<0>>}

\* hand-made table bytes: any header over these fields, any of these pools,
\* cut to any of these lengths
CraftedOffsets == {0, 1, 20, 21, 24}

CraftedLengths == {0, 1, 2}

CraftedPools ==
    {Bytes(<<>>), Bytes(<<97>>), Bytes(<<97, 116>>), Bytes(<<195, 169, 255>>)}

CraftedHeaders ==
    {C2PARecordInternal(0, 1, uo, ul, r, so, sl) :
        uo \in CraftedOffsets, ul \in CraftedLengths, r \in {0, 48879},
        so \in CraftedOffsets, sl \in CraftedLengths}

CraftedTables ==
    {Extend(C2PARecordInternal_to_bytes(h), p) : h \in CraftedHeaders, p \in CraftedPools}

Truncated ==
    {Slice(Extend(C2PARecordInternal_to_bytes(h), p), 1, n) :
        h \in {C2PARecordInternal(0, 1, 20, 2, 0, 22, 1),
               C2PARecordInternal(258, 772, 0, 0, 48879, 20, 3)},
        p \in {Bytes(<<195, 169, 255>>)}, n \in {0, 1, 11, 19, 20, 21, 22}}

\* the 18-byte-header layout of the specification's end-to-end scenario 1
V1Input ==
    Extend(Bytes(<<0, 0, 0, 1, 0, 0, 0, 0, 0, 0, 0, 0, 0, 18, 0, 0, 0, 9>>), TestData)

\* binary_c2pa of c2pa_none_uri, c2pa_none_manifest_store and c2pa_otspec
NoneUriInput ==
    Extend(Bytes(<<0, 0, 0, 1, 0, 0, 0, 0, 0, 0, 0, 0, 0, 0, 0, 20, 0, 0, 0, 9>>),
           TestData)

NoneManifestStoreInput ==
    Extend(Bytes(<<0, 0, 0, 1, 0, 0, 0, 20, 0, 8, 0, 0, 0, 0, 0, 0, 0, 0, 0, 0>>),
           FileA)

OtspecInput ==
    Extend(Extend(Bytes(<<0, 0, 0, 1, 0, 0, 0, 20, 0, 8, 0, 0, 0, 0, 0, 28, 0, 0, 0, 9>>),
                  FileA), TestData)

TableBytes ==
    CraftedTables \cup Truncated
    \cup {V1Input, NoneUriInput, NoneManifestStoreInput, OtspecInput}

(***************************************************************************)
(* ttf-add-c2pa-table.  A font's table collection is a function from the   *)
(* tags it holds to the tables; the registry is spec.md section 6:         *)
(* contains(tag), insert(value), remove(tag), keyed by the table's tag.    *)
(***************************************************************************)
TAG == "C2PA"

contains(tables, tag) == tag \in DOMAIN tables

\* the value is stored under its type's tag, replacing what was there
insert(tables, value) ==
    [t \in DOMAIN tables \cup {TAG} |-> IF t = TAG THEN value ELSE tables[t]]

remove(tables, tag) == [t \in DOMAIN tables \ {tag} |-> tables[t]]

\* the other tables of the input fonts
OtherTags == {"head", "name"}

\* the C2PA tables the input fonts come with
FontC2PAs == {Default, C2PA(0, 1, Some(FileA), Some(TestData))}

\* the table collections open_font returns
Fonts ==
    LET Others == {[t \in S |-> [tag |-> t]] : S \in SUBSET OtherTags}
    IN Others \cup {insert(f, v) : f \in Others, v \in FontC2PAs}

\* the command lines: -x, -r, -a <uri>
Matches ==
    [replace : BOOLEAN, remove : BOOLEAN,
     active_manifest_uri : OptionOf({Bytes(<<>>), FileA})]

\* the conflicts_with of the arguments: get_matches exits on them
conflicts(m) ==
    \/ m.replace /\ m.remove
    \/ m.active_manifest_uri.some /\ m.remove

\* main without the test for a table that is already there
main_always_insert(m, font) ==
    LET has_c2pa == contains(font, TAG)
    IN IF ~has_c2pa /\ m.remove THEN font
       ELSE IF m.remove THEN remove(font, TAG)
       ELSE insert(font, new(m.active_manifest_uri, None))

\* main with the removal left out: --remove on a font that has the table
\* falls through to the last branch
main_remove_falls_through(m, font) ==
    LET has_c2pa == contains(font, TAG)
    IN IF has_c2pa /\ ~m.replace /\ ~m.remove THEN font
       ELSE IF ~has_c2pa /\ m.remove THEN font
       ELSE insert(font, new(m.active_manifest_uri, None))

\* the table collection main hands to save_font
main(m, font) ==
    LET has_c2pa == contains(font, TAG)
    IN IF has_c2pa /\ ~m.replace /\ ~m.remove THEN font
       ELSE IF ~has_c2pa /\ m.remove THEN font
       ELSE IF m.remove THEN remove(font, TAG)
       ELSE insert(font, new(m.active_manifest_uri, None))

(***************************************************************************)
(* The state machine: build a value, encode it, decode a buffer; or run    *)
(* ttf-add-c2pa-table on a font.                                           *)
(***************************************************************************)
NoContext == ReaderContext(<<>>, 0, <<>>)

NoEntry == [ptr |-> 0, stack |-> <<>>]

\* `call` is where `table` comes from: a struct literal ("none"), default(),
\* new(..) with its arguments, or from_bytes
NoCall == [fn |-> "none", active_manifest_uri |-> None, manifest_store |-> None]

NoMatches == [replace |-> FALSE, remove |-> FALSE, active_manifest_uri |-> None]

NoFont == <<>>

Init ==
    /\ pc = "start"
    /\ src = "none"
    /\ table = NoTable
    /\ call = NoCall
    /\ data = <<>>
    /\ base = 0
    /\ c = NoContext
    /\ entry = NoEntry
    /\ res = NoResult
    /\ matches = NoMatches
    /\ opened = NoFont
    /\ in_font = NoFont

\* a table value written as a struct literal
Literal(v) ==
    /\ pc = "start"
    /\ pc' = "built"
    /\ table' = v
    /\ UNCHANGED <<src, call, data, base, c, entry, res, cli>>

\* C2PA::default()
DefaultValue ==
    /\ pc = "start"
    /\ pc' = "built"
    /\ table' = Default
    /\ call' = [NoCall EXCEPT !.fn = "default"]
    /\ UNCHANGED <<src, data, base, c, entry, res, cli>>

\* C2PA::new(active_manifest_uri, manifest_store)
New(uri, store) ==
    /\ pc = "start"
    /\ pc' = "built"
    /\ table' = new(uri, store)
    /\ call' = [fn |-> "new", active_manifest_uri |-> uri, manifest_store |-> store]
    /\ UNCHANGED <<src, data, base, c, entry, res, cli>>

\* table.to_bytes(&mut data), data holding d before the call
ToBytes(d) ==
    /\ pc = "built"
    /\ pc' = "encoded"
    /\ data' = to_bytes(table, d)
    /\ base' = ByteLen(d)
    /\ UNCHANGED <<src, table, call, c, entry, res, cli>>

\* a reader over the bytes just written, the cursor where the table begins
LoadEncoded(stack) ==
    /\ pc = "encoded"
    /\ pc' = "loaded"
    /\ src' = "encoded"
    /\ c' = ReaderContext(data, base, stack)
    /\ entry' = [ptr |-> base, stack |-> stack]
    /\ UNCHANGED <<table, call, data, base, res, cli>>

\* a reader over a buffer from elsewhere: p, then the table bytes t
LoadCrafted(p, t, stack) ==
    /\ pc = "start"
    /\ pc' = "loaded"
    /\ src' = "crafted"
    /\ c' = ReaderContext(Extend(p, t), ByteLen(p), stack)
    /\ entry' = [ptr |-> ByteLen(p), stack |-> stack]
    /\ UNCHANGED <<table, call, data, base, res, cli>>

\* C2PA::from_bytes(&mut c)
FromBytes ==
    /\ pc = "loaded"
    /\ pc' = "decoded"
    /\ LET r == from_bytes(c) IN
          /\ res' = r.res
          /\ c' = r.c
    /\ UNCHANGED <<src, table, call, data, base, entry, cli>>

\* after a successful decode the caller sets the cursor back to where the
\* table begins, to decode it once more with the same context
Seek ==
    /\ pc = "decoded"
    /\ res.ok
    /\ pc' = "loaded"
    /\ c' = [c EXCEPT !.ptr = entry.ptr]
    /\ res' = NoResult
    /\ UNCHANGED <<src, table, call, data, base, entry, cli>>

\* the decoded value is serialized again
Reencode ==
    /\ pc = "decoded"
    /\ res.ok
    /\ pc' = "built"
    /\ src' = "none"
    /\ table' = res.val
    /\ data' = <<>>
    /\ base' = 0
    /\ c' = NoContext
    /\ entry' = NoEntry
    /\ res' = NoResult
    /\ call' = [NoCall EXCEPT !.fn = "from_bytes"]
    /\ UNCHANGED cli

\* ttf-add-c2pa-table with arguments that conflict: get_matches reports the
\* usage error and exits, no font is opened or saved
UsageError(m) ==
    /\ pc = "start"
    /\ conflicts(m)
    /\ pc' = "usage"
    /\ matches' = m
    /\ UNCHANGED <<src, table, call, data, base, c, entry, res, opened, in_font>>

\* ttf-add-c2pa-table on a font: open_font, the four branches, save_font
Main(m, font) ==
    /\ pc = "start"
    /\ ~conflicts(m)
    /\ pc' = "saved"
    /\ matches' = m
    /\ opened' = font
    /\ in_font' = main(m, font)
    /\ UNCHANGED <<src, table, call, data, base, c, entry, res>>

Next ==
    \/ \E v \in TableValues : Literal(v)
    \/ DefaultValue
    \/ \E uri \in OptionOf(ShortUris), store \in OptionOf(ShortStores) : New(uri, store)
    \/ \E d \in Prefixes : ToBytes(d)
    \/ \E stack \in Stacks : LoadEncoded(stack)
    \/ \E p \in Prefixes, t \in TableBytes, stack \in Stacks : LoadCrafted(p, t, stack)
    \/ FromBytes
    \/ Seek
    \/ Reencode
    \/ \E m \in Matches : UsageError(m)
    \/ \E m \in Matches, font \in Fonts : Main(m, font)

Spec == Init /\ [][Next]_vars

(***************************************************************************)
(* What the claims read off a state.                                       *)
(***************************************************************************)
\* data holds to_bytes(table, d), the table's header beginning at base
HasEncoding == pc = "encoded" \/ (pc \in {"loaded", "decoded"} /\ src = "encoded")

\* bytes lo..hi (from 1) of the header written, as a big-endian integer
OutField(lo, hi) == from_be_bytes(ToSeq(Slice(data, base + lo, base + hi)))

OutUriOffset == OutField(5, 8)

OutUriLength == OutField(9, 10)

OutReserved == OutField(11, 12)

OutStoreOffset == OutField(13, 16)

OutStoreLength == OutField(17, 20)

\* the byte length of an optional payload, 0 when it is absent
PayloadLen(opt) == IF opt.some THEN ByteLen(opt.val) ELSE 0

\* the encoded table has been decoded again
DecodedEncoding == pc = "decoded" /\ src = "encoded"

(***************************************************************************)
(* C1  Round trip: decoding the bytes written by to_bytes(v) succeeds and  *)
(* yields v, for every table value v, whatever the payload lengths.        *)
(***************************************************************************)
C1_RoundTrip == DecodedEncoding => res = Ok(table)

(***************************************************************************)
(* C2  Offset sentinel: in every output of to_bytes an absent field has    *)
(* offset 0 and length 0; a present URI has offset 20; a present store has *)
(* offset 20 plus the byte length of the URI when that is present.         *)
(***************************************************************************)
C2_OffsetSentinel ==
    HasEncoding =>
        /\ ~table.activeManifestUri.some => OutUriOffset = 0 /\ OutUriLength = 0
        /\ ~table.manifestStore.some => OutStoreOffset = 0 /\ OutStoreLength = 0
        /\ table.activeManifestUri.some => OutUriOffset = 20
        /\ table.manifestStore.some =>
              /\ OutStoreOffset > 0
              /\ OutStoreOffset = 20 + PayloadLen(table.activeManifestUri)

(***************************************************************************)
(* C3  Pool contiguity: the bytes to_bytes writes after the 20-byte header *)
(* are the URI bytes (if present) immediately followed by the store bytes  *)
(* (if present), and nothing else.                                         *)
(***************************************************************************)
C3_PoolContiguity ==
    HasEncoding =>
        /\ ByteLen(data) = base + 20 + PayloadLen(table.activeManifestUri)
                                + PayloadLen(table.manifestStore)
        /\ Slice(data, base + 21, base + 20 + PayloadLen(table.activeManifestUri))
              = (IF table.activeManifestUri.some
                 THEN table.activeManifestUri.val ELSE <<>>)
        /\ Slice(data, base + 21 + PayloadLen(table.activeManifestUri), ByteLen(data))
              = (IF table.manifestStore.some THEN table.manifestStore.val ELSE <<>>)

\* an encoding, behind earlier content of the buffer, of a value with both
\* payloads present and not empty, the URI holding a two-byte character
C3_Witness ==
    /\ pc = "encoded"
    /\ base > 0
    /\ table.activeManifestUri = Some(Bytes(<<195, 169>>))
    /\ table.manifestStore = Some(Bytes(<<255, 116>>))

(***************************************************************************)
(* C4  For every present field the header length written equals the        *)
(* payload's byte length and the pool offset advances by that length, for  *)
(* every payload length, a URI of more than 65535 bytes included.          *)
(***************************************************************************)
C4_LengthIsByteLength ==
    HasEncoding =>
        /\ table.activeManifestUri.some =>
              OutUriLength = ByteLen(table.activeManifestUri.val)
        /\ table.manifestStore.some =>
              OutStoreLength = ByteLen(table.manifestStore.val)
        /\ (table.activeManifestUri.some /\ table.manifestStore.some) =>
              OutStoreOffset - OutUriOffset = ByteLen(table.activeManifestUri.val)

(***************************************************************************)
(* C5  Origin-stack unwinding on error: when from_bytes fails, the origin  *)
(* it pushed at entry has been popped, so the table-origin stack is what   *)
(* it was before the call.                                                 *)
(***************************************************************************)
C5_UnwoundOnError ==
    (pc = "decoded" /\ ~res.ok) => c.top_of_table_stack = entry.stack

(***************************************************************************)
(* What the claims read off a decode.                                      *)
(***************************************************************************)
\* the bytes from the table origin to the end of the buffer
TableIn == Slice(c.input, entry.ptr + 1, ByteLen(c.input))

InLen == ByteLen(c.input) - entry.ptr

HeaderComplete == InLen >= 20

\* bytes lo..hi (from 1) of the header read, as a big-endian integer
InField(lo, hi) == from_be_bytes(ToSeq(Slice(c.input, entry.ptr + lo, entry.ptr + hi)))

InUriOffset == InField(5, 8)

InUriLength == InField(9, 10)

InReserved == InField(11, 12)

InStoreOffset == InField(13, 16)

InStoreLength == InField(17, 20)

\* table origin + offset + length is past the end of the buffer
UriPastEnd == InUriOffset > 0 /\ InUriOffset + InUriLength > InLen

StorePastEnd == InStoreOffset > 0 /\ InStoreOffset + InStoreLength > InLen

\* the URI bytes are all there and are no UTF-8
UriNotUtf8 ==
    /\ InUriOffset > 0
    /\ ~UriPastEnd
    /\ ~from_utf8_ok(Slice(c.input, entry.ptr + InUriOffset + 1,
                           entry.ptr + InUriOffset + InUriLength))

(***************************************************************************)
(* C6  Boundary, as claimed: from_bytes fails with out-of-data when the    *)
(* buffer holds fewer bytes than the header from the table origin, and     *)
(* when a present field's origin + offset + length is past the end of the  *)
(* buffer.                                                                 *)
(***************************************************************************)
C6_Boundary ==
    pc = "decoded" =>
        /\ ~HeaderComplete => res = Err("OutOfData")
        /\ (HeaderComplete /\ (UriPastEnd \/ StorePastEnd)) => res = Err("OutOfData")

(***************************************************************************)
(* C6  Boundary, amended: from_bytes fails with out-of-data when fewer     *)
(* than 20 bytes follow the table origin; it fails, returning no value,    *)
(* when a present field of length > 0 has origin + offset + length past    *)
(* the end of the buffer, with out-of-data unless the URI was read in full *)
(* and is no UTF-8 (then the text-encoding error comes first); and a value *)
(* it returns holds payloads of exactly the declared lengths.              *)
(***************************************************************************)
C6_BoundaryNonEmpty ==
    pc = "decoded" =>
        /\ ~HeaderComplete => res = Err("OutOfData")
        /\ (HeaderComplete /\ UriPastEnd /\ InUriLength > 0) => res = Err("OutOfData")
        /\ (HeaderComplete /\ StorePastEnd /\ InStoreLength > 0) =>
              /\ ~res.ok
              /\ res.err = "OutOfData" \/ (res.err = "InvalidEncoding" /\ UriNotUtf8)
        /\ res.ok =>
              /\ InUriOffset > 0 => ByteLen(res.val.activeManifestUri.val) = InUriLength
              /\ InStoreOffset > 0 => ByteLen(res.val.manifestStore.val) = InStoreLength

\* a store whose first byte is in the buffer and whose last is not
C6_Witness ==
    /\ pc = "decoded"
    /\ HeaderComplete
    /\ InStoreOffset > 0
    /\ InStoreOffset < InLen
    /\ InStoreOffset + InStoreLength > InLen
    /\ res = Err("OutOfData")

(***************************************************************************)
(* C7  Reserved-field tolerance: from_bytes returns the same result        *)
(* whatever the reserved field holds (the result of the same buffer with   *)
(* the field zeroed), and to_bytes always writes the reserved field as 0.  *)
(***************************************************************************)
\* input with bytes 11 and 12 after origin set to 0, as far as they exist
ZeroReserved(input, origin) ==
    Extend(Extend(Slice(input, 1, origin + 10),
                  Repeat(0, ByteLen(Slice(input, origin + 11, origin + 12)))),
           Slice(input, origin + 13, ByteLen(input)))

C7_ReservedTolerance ==
    /\ pc = "decoded" =>
          res = from_bytes(ReaderContext(ZeroReserved(c.input, entry.ptr),
                                         entry.ptr, entry.stack)).res
    /\ HasEncoding => OutReserved = 0

\* a buffer with reserved = BEEF was decoded, and its store came out
C7_Witness ==
    /\ pc = "decoded"
    /\ src = "crafted"
    /\ HeaderComplete
    /\ InReserved = 48879
    /\ res.ok
    /\ res.val.manifestStore.some
    /\ ByteLen(res.val.manifestStore.val) > 0

C9_RelocationInvariance ==
    pc = "decoded" => res = from_bytes(ReaderContext(TableIn, 0, <<>>)).res

\* a table with both payloads, decoded one byte into the buffer of an
\* enclosing table that begins at 0
C9_Witness ==
    /\ pc = "decoded"
    /\ entry.ptr > 0
    /\ entry.stack = <<0>>
    /\ res.ok
    /\ res.val.activeManifestUri.some
    /\ ByteLen(res.val.activeManifestUri.val) > 0
    /\ res.val.manifestStore.some
    /\ ByteLen(res.val.manifestStore.val) > 0

(***************************************************************************)
(* C10  Absent and present-empty both round-trip: a present empty URI or   *)
(* store is written with a nonzero offset and length 0 and decodes to a    *)
(* present empty payload; an absent one is written with offset 0 and       *)
(* decodes to absent.                                                      *)
(***************************************************************************)
C10_AbsentVsEmpty ==
    DecodedEncoding =>
        /\ table.activeManifestUri = Some(<<>>) =>
              /\ OutUriOffset > 0 /\ OutUriLength = 0
              /\ res.ok /\ res.val.activeManifestUri = Some(<<>>)
        /\ table.manifestStore = Some(<<>>) =>
              /\ OutStoreOffset > 0 /\ OutStoreLength = 0
              /\ res.ok /\ res.val.manifestStore = Some(<<>>)
        /\ table.activeManifestUri = None =>
              /\ OutUriOffset = 0
              /\ res.ok /\ res.val.activeManifestUri = None
        /\ table.manifestStore = None =>
              /\ OutStoreOffset = 0
              /\ res.ok /\ res.val.manifestStore = None

(***************************************************************************)
(* C11  from_bytes fails with the text-encoding error, and returns no      *)
(* value, whenever the URI is present (offset > 0), its bytes are all in   *)
(* the buffer, and they are not valid UTF-8.                               *)
(***************************************************************************)
C11_UriNotUtf8Fails ==
    (pc = "decoded" /\ HeaderComplete /\ UriNotUtf8) => res = Err("InvalidEncoding")

\* the URI is the lone lead byte C3; the store after it is readable
C11_Witness ==
    /\ pc = "decoded"
    /\ HeaderComplete
    /\ InUriOffset = 20
    /\ InUriLength = 1
    /\ Slice(c.input, entry.ptr + 21, entry.ptr + 21) = Bytes(<<195>>)
    /\ InStoreOffset = 21
    /\ ~StorePastEnd
    /\ res = Err("InvalidEncoding")

(***************************************************************************)
(* C12  The manifest store is opaque: a buffer whose store payload is s,   *)
(* UTF-8 or not, decodes with get_manifest_store() returning exactly s     *)
(* (the URI, if any, being readable), and encoding a value whose store is  *)
(* s writes exactly s, as the last bytes of the pool.                      *)
(***************************************************************************)
\* the URI is absent, or its bytes are in the buffer and are UTF-8
UriReadable ==
    \/ InUriOffset = 0
    \/ /\ InUriLength = 0 \/ ~UriPastEnd
       /\ from_utf8_ok(Slice(c.input, entry.ptr + InUriOffset + 1,
                             entry.ptr + InUriOffset + InUriLength))

C13_Construction ==
    /\ (pc = "built" /\ call.fn = "default") =>
          /\ table.majorVersion = 0
          /\ table.minorVersion = 1
          /\ table.activeManifestUri = None
          /\ table.manifestStore = None
    /\ (pc = "built" /\ call.fn = "new") =>
          /\ table.majorVersion = 0
          /\ table.minorVersion = 1
          /\ table.activeManifestUri = call.active_manifest_uri
          /\ get_manifest_store(table) = call.manifest_store

\* new("file://a", [FF]) has been called
C13_Witness ==
    /\ pc = "built"
    /\ call.fn = "new"
    /\ call.active_manifest_uri = Some(FileA)
    /\ call.manifest_store = Some(Bytes(<<255>>))
    /\ get_manifest_store(table) = Some(Bytes(<<255>>))

(***************************************************************************)
(* C14  ttf-add-c2pa-table never overwrites a C2PA table without           *)
(* --replace: when the input font holds a C2PA table and neither --replace *)
(* nor --remove is given, the saved font's table collection is the input's *)
(* (nothing inserted, nothing removed), whatever -a says.                  *)
(***************************************************************************)
C14_NoOverwrite ==
    (pc = "saved" /\ contains(opened, TAG) /\ ~matches.replace /\ ~matches.remove) =>
        in_font = opened

\* a font with a C2PA table carrying a URI and a store, run with -a only
C14_Witness ==
    /\ pc = "saved"
    /\ contains(opened, TAG)
    /\ opened[TAG].manifestStore = Some(TestData)
    /\ matches = [replace |-> FALSE, remove |-> FALSE,
                  active_manifest_uri |-> Some(Bytes(<<>>))]
    /\ in_font[TAG] = opened[TAG]

(***************************************************************************)
(* C15  With --remove the saved font holds no C2PA table, for every input  *)
(* font; the other tables are the input's, and when the input had no C2PA  *)
(* table the collection is unchanged.                                      *)
(***************************************************************************)
C15_Remove ==
    (pc = "saved" /\ matches.remove) =>
        /\ ~contains(in_font, TAG)
        /\ in_font = remove(opened, TAG)
        /\ ~contains(opened, TAG) => in_font = opened

\* --remove on a font that holds the C2PA table and a head table
C15_Witness ==
    /\ pc = "saved"
    /\ matches.remove
    /\ contains(opened, TAG)
    /\ contains(opened, "head")
    /\ ~contains(in_font, TAG)
    /\ contains(in_font, "head")

(***************************************************************************)
(* C16  A header offset of 0 means absent whatever the length next to it:  *)
(* the field decodes as absent and nothing is sought or read for it, even  *)
(* when its length is nonzero or larger than what is left of the buffer.   *)
(* A field is present in the decoded value exactly when its own offset is  *)
(* nonzero; with both offsets 0 the decode succeeds with the cursor right  *)
(* after the header, and a failure is never due to a field of offset 0.    *)
(***************************************************************************)
C16_OffsetZeroAbsent ==
    (pc = "decoded" /\ HeaderComplete) =>
        /\ res.ok =>
              /\ res.val.activeManifestUri.some <=> InUriOffset > 0
              /\ res.val.manifestStore.some <=> InStoreOffset > 0
        /\ (InUriOffset = 0 /\ InStoreOffset = 0) =>
              /\ res.ok
              /\ c.ptr = entry.ptr + 20
        /\ (InUriOffset = 0 /\ ~res.ok) =>
              /\ res.err = "OutOfData"
              /\ StorePastEnd
              /\ InStoreLength > 0
        /\ (InStoreOffset = 0 /\ ~res.ok) =>
              \/ UriNotUtf8
              \/ UriPastEnd /\ InUriLength > 0

\* both offsets 0, both lengths 2, and no byte after the header
C16_Witness ==
    /\ pc = "decoded"
    /\ InLen = entry.ptr + 20
    /\ InUriOffset = 0
    /\ InUriLength = 2
    /\ InStoreOffset = 0
    /\ InStoreLength = 2
    /\ res.ok
    /\ res.val.activeManifestUri = None
    /\ res.val.manifestStore = None

(***************************************************************************)
(* C17  Push and pop are balanced on success: from_bytes pushes one table  *)
(* origin, the cursor position at entry, and on every successful return    *)
(* has popped it, so that the origin stack is what it was before the call, *)
(* also when the same context decodes again and again.  The payloads are   *)
(* read at that origin plus their offsets.  (A decode that fails returns   *)
(* with its one origin, the entry position, still on the stack.)           *)
(***************************************************************************)
C17_BalancedOnSuccess ==
    /\ pc = "loaded" => c.top_of_table_stack = entry.stack /\ c.ptr = entry.ptr
    /\ (pc = "decoded" /\ res.ok) =>
          /\ c.top_of_table_stack = entry.stack
          /\ res.val.activeManifestUri.some =>
                res.val.activeManifestUri.val
                   = Slice(c.input, entry.ptr + InUriOffset + 1,
                           entry.ptr + InUriOffset + InUriLength)
          /\ res.val.manifestStore.some =>
                res.val.manifestStore.val
                   = Slice(c.input, entry.ptr + InStoreOffset + 1,
                           entry.ptr + InStoreOffset + InStoreLength)
    /\ (pc = "decoded" /\ ~res.ok) =>
          c.top_of_table_stack = Append(entry.stack, entry.ptr)

\* a table at position 1, decoded under an outer origin 0, both fields read
C17_Witness ==
    /\ pc = "decoded"
    /\ res.ok
    /\ entry = [ptr |-> 1, stack |-> <<0>>]
    /\ c.top_of_table_stack = <<0>>
    /\ res.val.activeManifestUri.some
    /\ res.val.manifestStore.some
    /\ c.ptr > entry.ptr + 20

(***************************************************************************)
(* C18  Encoding only appends: after to_bytes(v, data), data holding d     *)
(* before, the first len(d) bytes are d, and exactly                       *)
(* 20 + len(uri) + len(store) bytes follow.  What is appended does not     *)
(* depend on d: the offsets in the header count from the start of the      *)
(* appended header, not from the start of data.  (The explored d are runs  *)
(* of the byte AA.)                                                        *)
(***************************************************************************)
C18_AppendOnly ==
    HasEncoding =>
        /\ Slice(data, 1, base) = Repeat(170, base)
        /\ ByteLen(data) = base + 20 + PayloadLen(table.activeManifestUri)
                                + PayloadLen(table.manifestStore)
        /\ Slice(data, base + 1, ByteLen(data)) = to_bytes(table, <<>>)
        /\ table.activeManifestUri.some => OutUriOffset = 20
        /\ (~table.activeManifestUri.some /\ table.manifestStore.some) =>
              OutStoreOffset = 20

\* "file://a" and "test-data" appended to a buffer of one byte
C18_Witness ==
    /\ HasEncoding
    /\ base = 1
    /\ table.activeManifestUri = Some(FileA)
    /\ table.manifestStore = Some(TestData)
    /\ ByteLen(data) = 1 + 20 + 8 + 9
    /\ OutUriOffset = 20
    /\ OutStoreOffset = 28

(***************************************************************************)
(* C19  Re-encoding normalizes without changing the meaning: for every     *)
(* buffer b that from_bytes decodes, whatever its layout (nonzero          *)
(* reserved, payloads in reverse order, overlapping, with gaps or trailing *)
(* bytes, offsets into the header), decoding to_bytes(from_bytes(b))       *)
(* succeeds and gives the value from_bytes(b) gave, and encoding that      *)
(* again gives the same bytes as the first encoding.                       *)
(***************************************************************************)
C19_ReencodeNormalizes ==
    /\ (pc = "decoded" /\ res.ok) =>
          LET first == to_bytes(res.val, <<>>)
              again == from_bytes(ReaderContext(first, 0, <<>>)).res
          IN /\ again = Ok(res.val)
             /\ to_bytes(again.val, <<>>) = first
    /\ (DecodedEncoding /\ call.fn = "from_bytes") => res = Ok(table)

\* a buffer with the store ahead of the URI and a nonzero reserved field
C19_Witness ==
    /\ pc = "decoded"
    /\ src = "crafted"
    /\ res.ok
    /\ InReserved # 0
    /\ InStoreOffset = 20
    /\ InStoreLength = 1
    /\ InUriOffset = 21
    /\ InUriLength = 1
    /\ to_bytes(res.val, <<>>) # TableIn

====
